---- MODULE Spec2Model ----
(***************************************************************************)
(* A model of the NetSuite Records Browser scraper, netsuite_scraper.py:   *)
(* parse_field_row, extract_record_data, get_record_links and main.        *)
(*                                                                         *)
(* A Python str is a sequence of one-character strings, so that strip,     *)
(* lower, split, join, startswith, endswith, "in" and sorted are computed  *)
(* character by character as Python computes them.  An optional value      *)
(* (None or a value) is a sequence of length 0 or 1.                       *)
(***************************************************************************)
EXTENDS Integers, Sequences, FiniteSets, TLC

(***************************************************************************)
(* Bounds of the model.                                                    *)
(***************************************************************************)
\* anchors on a start page
MaxAnchors == 2
\* elements (headings, tables) on a record page, in document order
MaxElems == 3
\* cells in a table row
MaxCells == 7

(***************************************************************************)
(* Python str operations.                                                  *)
(***************************************************************************)
None == <<>>

Some(x) == <<x>>

Whitespace == {" ", "\t", "\n"}

UpperCase == <<"A","B","C","D","E","F","G","H","I","J","K","L","M",
               "N","O","P","Q","R","S","T","U","V","W","X","Y","Z">>

LowerCase == <<"a","b","c","d","e","f","g","h","i","j","k","l","m",
               "n","o","p","q","r","s","t","u","v","w","x","y","z">>

LowerChar(c) ==
    IF \E i \in 1..26 : UpperCase[i] = c
    THEN LowerCase[CHOOSE i \in 1..26 : UpperCase[i] = c]
    ELSE c

\* str.lower()
Lower(s) == [i \in 1..Len(s) |-> LowerChar(s[i])]

\* str.strip(): leading and trailing whitespace removed
Strip(s) ==
    LET ink == {i \in 1..Len(s) : s[i] \notin Whitespace}
    IN  IF ink = {} THEN <<>>
        ELSE LET lo == CHOOSE i \in ink : \A j \in ink : i <= j
                 hi == CHOOSE i \in ink : \A j \in ink : j <= i
             IN  SubSeq(s, lo, hi)

\* s.startswith(p)
StartsWith(s, p) == Len(p) <= Len(s) /\ SubSeq(s, 1, Len(p)) = p

\* s.endswith(p)
EndsWith(s, p) == Len(p) <= Len(s) /\ SubSeq(s, Len(s) - Len(p) + 1, Len(s)) = p

\* p in s
Contains(s, p) == \E i \in 1..(Len(s) - Len(p) + 1) : SubSeq(s, i, i + Len(p) - 1) = p

\* s.split('/'): the pieces between the slashes, empty pieces kept
RECURSIVE SplitSlash(_)
SplitSlash(s) ==
    LET cuts == {i \in 1..Len(s) : s[i] = "/"}
    IN  IF cuts = {} THEN <<s>>
        ELSE LET c == CHOOSE i \in cuts : \A j \in cuts : i <= j
             IN  <<SubSeq(s, 1, c - 1)>> \o SplitSlash(SubSeq(s, c + 1, Len(s)))

\* '/'.join(parts)
RECURSIVE JoinSlash(_)
JoinSlash(parts) ==
    IF Len(parts) = 0 THEN <<>>
    ELSE IF Len(parts) = 1 THEN parts[1]
    ELSE parts[1] \o <<"/">> \o JoinSlash(Tail(parts))

\* s.replace(p, ''): every non-overlapping occurrence of p removed, left to right
RECURSIVE RemoveAll(_, _)
RemoveAll(s, p) ==
    IF Len(s) = 0 THEN <<>>
    ELSE IF StartsWith(s, p) THEN RemoveAll(SubSeq(s, Len(p) + 1, Len(s)), p)
    ELSE <<s[1]>> \o RemoveAll(Tail(s), p)

\* the characters of the model's texts in code-point order
CodeOrder == <<"\t", "\n", " ", ".", "/", ":",
               "A","B","C","D","E","F","G","H","I","J","K","L","M",
               "N","O","P","Q","R","S","T","U","V","W","X","Y","Z",
               "a","b","c","d","e","f","g","h","i","j","k","l","m",
               "n","o","p","q","r","s","t","u","v","w","x","y","z">>

Ord(c) == CHOOSE i \in 1..Len(CodeOrder) : CodeOrder[i] = c

\* a < b for str: by code point at the first difference, a proper prefix first
RECURSIVE StrLess(_, _)
StrLess(a, b) ==
    IF Len(b) = 0 THEN FALSE
    ELSE IF Len(a) = 0 THEN TRUE
    ELSE IF a[1] = b[1] THEN StrLess(Tail(a), Tail(b))
    ELSE Ord(a[1]) < Ord(b[1])

\* sorted(list(S)) for a set of str
RECURSIVE SortedList(_)
SortedList(S) ==
    IF S = {} THEN <<>>
    ELSE LET m == CHOOSE x \in S : \A y \in S \ {x} : StrLess(x, y)
         IN  <<m>> \o SortedList(S \ {m})

(***************************************************************************)
(* The HTML a page holds, as BeautifulSoup presents it.                    *)
(*   cell    : [tag : "td" or "th", nodes : the cell's text nodes]         *)
(*   row     : the sequence of a tr's cells                                *)
(*   element : [tag, nodes, rows], an h1..h6 with its text nodes or a      *)
(*             table with its tr rows; a record page is the sequence of    *)
(*             its elements in document order                              *)
(*   anchor  : [href, nodes, within], an <a href> with the containers      *)
(*             (nav, aside, div, ul ancestors) it lies in                  *)
(***************************************************************************)
RECURSIVE Concat(_)
Concat(ss) == IF Len(ss) = 0 THEN <<>> ELSE ss[1] \o Concat(Tail(ss))

\* Tag.get_text(strip=True): every text node stripped, the empty ones dropped,
\* the rest joined with no separator
GetTextStrip(nodes) == Concat([i \in 1..Len(nodes) |-> Strip(nodes[i])])

\* Tag.string: the single text child, None when there is not exactly one
TagString(nodes) == IF Len(nodes) = 1 THEN Some(nodes[1]) ELSE None

S_true == <<"t","r","u","e">>

\* src/netsuite_scraper.py:22
MinCells == 6

IsTd(cell) == cell.tag = "td"

parse_field_row_nolower(row) ==
    LET cells == SelectSeq(row, IsTd)
    IN  IF Len(cells) < MinCells THEN None
        ELSE Some([internalId        |-> GetTextStrip(cells[1].nodes),
                   type              |-> GetTextStrip(cells[2].nodes),
                   nlsapiSubmitField |-> GetTextStrip(cells[3].nodes),
                   label             |-> GetTextStrip(cells[4].nodes),
                   required          |-> GetTextStrip(cells[5].nodes) = S_true,
                   help              |-> GetTextStrip(cells[6].nodes)])

\* parse_field_row(row): None for a row with fewer than 6 td cells, else the
\* field descriptor read from the first six td cells
parse_field_row(row) ==
    LET cells == SelectSeq(row, IsTd)
    IN  IF Len(cells) < MinCells THEN None
        ELSE Some([internalId        |-> GetTextStrip(cells[1].nodes),
                   type              |-> GetTextStrip(cells[2].nodes),
                   nlsapiSubmitField |-> GetTextStrip(cells[3].nodes),
                   label             |-> GetTextStrip(cells[4].nodes),
                   required          |-> Lower(GetTextStrip(cells[5].nodes)) = S_true,
                   help              |-> GetTextStrip(cells[6].nodes)])

(***************************************************************************)
(* Table rows the model feeds the parser.                                  *)
(***************************************************************************)
\* texts of a "required" cell, as text nodes
ReqCells == {
    <<<<"t","r","u","e">>>>, <<<<"T","R","U","E"," ">>>>, <<<<"T","r","u","e">>>>, <<<<" ","t","R","u","E","\n">>>>, <<<<"y","e","s">>>>,
    <<<<"f","a","l","s","e">>>>, <<>>, <<<<"t","r"," ">>, <<"u","e">>>>, <<<<"t"," ","r","u","e">>>>, <<<<"t","r","u","e","e">>>>, <<<<" ">>>> }

\* a row of n cells: cell 1 holds mark, cell 5 holds req, cell i otherwise the
\* i-th letter padded with a blank; cell thAt (when in 1..n) is a th, the rest td
Row(mark, n, req, thAt) ==
    [i \in 1..n |->
        [tag   |-> IF i = thAt THEN "th" ELSE "td",
         nodes |-> IF i = 1 THEN <<<<mark>>>>
                   ELSE IF i = 5 THEN req
                   ELSE <<<<" ", LowerCase[i]>>>>]]

Rows == { Row("a", n, req, thAt) : n \in 0..MaxCells, req \in ReqCells, thAt \in 0..MaxCells }

(***************************************************************************)
(* extract_record_data                                                     *)
(***************************************************************************)
S_Fields == <<"F","i","e","l","d","s">>

S_html == <<".","h","t","m","l">>

Min(a, b) == IF a <= b THEN a ELSE b

\* s[:n]
Take(s, n) == SubSeq(s, 1, Min(n, Len(s)))

\* the least element of a non-empty set of positions
Least(S) == CHOOSE i \in S : \A j \in S : i <= j

\* soup.find('h1'): the position of the first h1, None when there is none
find_h1(page) ==
    LET hits == {i \in 1..Len(page) : page[i].tag = "h1"}
    IN  IF hits = {} THEN None ELSE Some(Least(hits))

\* the string= filter of line 72: lambda x: x and 'Fields' in str(x), applied
\* to the element's .string
HasFieldsString(el) ==
    LET str == TagString(el.nodes)
    IN  /\ str # None
        /\ str[1] # <<>>
        /\ Contains(str[1], S_Fields)

\* soup.find(heading_tag, string=...): the first element of that tag that passes
find_heading(page, heading_tag) ==
    LET hits == {i \in 1..Len(page) : page[i].tag = heading_tag /\ HasFieldsString(page[i])}
    IN  IF hits = {} THEN None ELSE Some(Least(hits))

\* the levels with h6 tried as well
HeadingTags_h6 == <<"h2", "h3", "h4", "h5", "h6">>

\* the heading levels tried, in the order tried
HeadingTags == <<"h2", "h3", "h4", "h5">>

\* the loop of lines 70-75: the first level with a match wins
RECURSIVE find_fields_heading_from(_, _)
find_fields_heading_from(page, k) ==
    IF k > Len(HeadingTags) THEN None
    ELSE IF find_heading(page, HeadingTags[k]) # None THEN find_heading(page, HeadingTags[k])
    ELSE find_fields_heading_from(page, k + 1)

\* the first h2..h5 in document order that passes, whatever its level
find_fields_heading_docorder(page) ==
    LET hits == {i \in 1..Len(page) :
                   /\ \E k \in 1..Len(HeadingTags) : page[i].tag = HeadingTags[k]
                   /\ HasFieldsString(page[i])}
    IN  IF hits = {} THEN None ELSE Some(Least(hits))

find_fields_heading(page) == find_fields_heading_from(page, 1)

\* fields_heading.find_next('table'): the first table after position h
find_next_table(page, h) ==
    LET hits == {i \in (h + 1)..Len(page) : page[i].tag = "table"}
    IN  IF hits = {} THEN None ELSE Some(Least(hits))

\* url.split('/')[-1].replace('.html', '')
record_internal_id(url) ==
    LET parts == SplitSlash(url)
    IN  RemoveAll(parts[Len(parts)], S_html)

\* lines 92-104: the descriptors of the rows after the first, None results left out
RECURSIVE parse_rows(_)
parse_rows(rows) ==
    IF Len(rows) = 0 THEN <<>>
    ELSE parse_field_row(rows[1]) \o parse_rows(Tail(rows))

parse_table_with_header(rows) == parse_rows(rows)

parse_table(rows) == parse_rows(SubSeq(rows, 2, Len(rows)))

\* extract_record_data(page, url): fetched is None when page.goto or
\* page.content raised, else the page's elements.  Every exception is caught
\* (line 114) and gives None, like each structural miss.
extract_record_data(fetched, url) ==
    IF fetched = None THEN None
    ELSE LET page == fetched[1]
             h1   == find_h1(page)
         IN  IF h1 = None THEN None
             ELSE LET fields_heading == find_fields_heading(page)
                  IN  IF fields_heading = None THEN None
                      ELSE LET table == find_next_table(page, fields_heading[1])
                           IN  IF table = None THEN None
                               ELSE Some([recordName       |-> GetTextStrip(page[h1[1]].nodes),
                                          recordInternalId |-> record_internal_id(url),
                                          fields           |-> parse_table(page[table[1]].rows)])

(***************************************************************************)
(* Record pages the model feeds the extraction.                            *)
(***************************************************************************)
Heading(tag, nodes) == [tag |-> tag, nodes |-> nodes, rows |-> <<>>]

Table(rows) == [tag |-> "table", nodes |-> <<>>, rows |-> rows]

HeaderRow == [i \in 1..6 |-> [tag |-> "th", nodes |-> <<<<UpperCase[i]>>>>]]

ReqTrue == <<<<"t","r","u","e">>>>

ReqYes == <<<<"y","e","s">>>>

Headings == {
    Heading("h1", <<<<" ","W","i","d","g","e","t","\n">>>>),
    Heading("h1", <<<<"F","i","e","l","d","s">>>>),
    Heading("h2", <<<<"F","i","e","l","d","s">>>>),
    Heading("h2", <<<<"T","a","b","s">>>>),
    Heading("h2", <<<<"F","i","e","l","d","s">>, <<" ","(","x",")">>>>),
    Heading("h3", <<<<"S","t","a","n","d","a","r","d"," ","F","i","e","l","d","s">>>>),
    Heading("h6", <<<<"F","i","e","l","d","s">>>>) }

Tables == {
    \* no tr at all
    Table(<<>>),
    \* a header row only
    Table(<<HeaderRow>>),
    \* header, a 6-cell row, a 4-cell row
    Table(<<HeaderRow, Row("a", 6, ReqTrue, 0), Row("b", 4, ReqYes, 0)>>),
    \* no th header: the first data row stands where the header would
    Table(<<Row("a", 6, ReqYes, 0), Row("b", 7, ReqTrue, 0)>>),
    \* header, a row of 6 cells of which one is a th, a short row, a 6-cell row
    Table(<<HeaderRow, Row("a", 6, ReqTrue, 2), Row("b", 0, ReqYes, 0), Row("c", 6, ReqYes, 0)>>) }

Elems == Headings \cup Tables

SeqsUpTo(S, n) == UNION { [1..k -> S] : k \in 0..n }

\* longer pages, where the levels and the document order pull apart
TableA == Table(<<HeaderRow, Row("a", 6, ReqTrue, 0), Row("b", 4, ReqYes, 0)>>)

TableB == Table(<<Row("a", 6, ReqYes, 0), Row("b", 7, ReqTrue, 0)>>)

\* an h3 "Standard Fields" and its table, then an h2 "Fields" and its table
PageH3BeforeH2 ==
    <<Heading("h1", <<<<" ","W","i","d","g","e","t","\n">>>>), Heading("h3", <<<<"S","t","a","n","d","a","r","d"," ","F","i","e","l","d","s">>>>), TableA,
      Heading("h2", <<<<"F","i","e","l","d","s">>>>), TableB>>

\* the same with no table after the h2
PageH3TableH2 ==
    <<Heading("h1", <<<<" ","W","i","d","g","e","t","\n">>>>), Heading("h3", <<<<"S","t","a","n","d","a","r","d"," ","F","i","e","l","d","s">>>>), TableA,
      Heading("h2", <<<<"F","i","e","l","d","s">>>>)>>

\* a table before the heading and two after it
PageTablesAround ==
    <<TableA, Heading("h1", <<<<" ","W","i","d","g","e","t","\n">>>>), Heading("h2", <<<<"F","i","e","l","d","s">>>>), TableB, TableA>>

\* "Fields" in the h1 and in an h6 only, with a table
PageFieldsH1H6 ==
    <<Heading("h1", <<<<"F","i","e","l","d","s">>>>), Heading("h2", <<<<"T","a","b","s">>>>), Heading("h6", <<<<"F","i","e","l","d","s">>>>), TableA>>

OrderPages == {PageH3BeforeH2, PageH3TableH2, PageTablesAround, PageFieldsH1H6}

Pages == SeqsUpTo(Elems, MaxElems) \cup OrderPages

(***************************************************************************)
(* get_record_links                                                        *)
(***************************************************************************)
S_record == <<"/","r","e","c","o","r","d","/">>

S_http == <<"h","t","t","p">>

S_nav == <<"n","a","v">>

S_sidebar == <<"s","i","d","e","b","a","r">>

S_menu == <<"m","e","n","u">>

S_toc == <<"t","o","c">>

S_tree == <<"t","r","e","e">>

\* line 151: '/record/' in href and href.endswith('.html')
is_record_href(href) == Contains(href, S_record) /\ EndsWith(href, S_html)

\* lines 153-160: the absolute URL of a record href found by the first pass
full_url(href, start_url) ==
    IF StartsWith(href, S_http) THEN href
    ELSE IF StartsWith(href, <<"/">>)
         THEN JoinSlash(Take(SplitSlash(start_url), 3)) \o href
         ELSE LET parts == SplitSlash(start_url)
              IN  JoinSlash(SubSeq(parts, 1, Len(parts) - 1)) \o <<"/">> \o href

\* line 190: href.endswith('.html') and '/record/' in href
is_record_href_nav(href) == EndsWith(href, S_html) /\ Contains(href, S_record)

\* the second pass keeping the href as it stands
full_url_nav_unresolved(href, start_url) == href

\* lines 192-199: the absolute URL of a record href found by the second pass
full_url_nav(href, start_url) ==
    IF StartsWith(href, S_http) THEN href
    ELSE IF StartsWith(href, <<"/">>)
         THEN JoinSlash(Take(SplitSlash(start_url), 3)) \o href
         ELSE LET parts == SplitSlash(start_url)
              IN  JoinSlash(SubSeq(parts, 1, Len(parts) - 1)) \o <<"/">> \o href

\* lines 143-162: the first pass, over every <a href> of the document
strategy1(anchors, start_url) ==
    { full_url(anchors[i].href, start_url) :
        i \in {j \in 1..Len(anchors) : is_record_href(anchors[j].href)} }

\* an attribute filter "lambda x: x and any(term in str(x).lower() ...)"
AttrHasAny(attr, terms) ==
    /\ attr # None
    /\ attr[1] # <<>>
    /\ \E term \in terms : Contains(Lower(attr[1]), term)

\* nav_selectors, lines 170-176: whether container c is found by selector k
selects(k, c) ==
    CASE k = 1 -> c.tag = "nav"
      [] k = 2 -> c.tag = "aside"
      [] k = 3 -> c.tag = "div" /\ AttrHasAny(c.id, {S_nav})
      [] k = 4 -> c.tag = "div" /\ AttrHasAny(c.class, {S_nav, S_sidebar, S_menu, S_toc, S_tree})
      [] k = 5 -> c.tag = "ul" /\ AttrHasAny(c.class, {S_nav, S_menu, S_tree})

\* lines 178-200: the second pass, over the <a href> inside a selected container
strategy2(anchors, start_url) ==
    { full_url_nav(anchors[i].href, start_url) :
        i \in {j \in 1..Len(anchors) :
                 /\ \E k \in 1..5 : \E n \in 1..Len(anchors[j].within) :
                        selects(k, anchors[j].within[n])
                 /\ is_record_href_nav(anchors[j].href)} }

\* record_links as a list that keeps every hit, in place of the set of line 139
get_record_links_list(anchors, start_url) ==
    LET hits == SelectSeq(anchors, LAMBDA a : is_record_href(a.href))
    IN  [i \in 1..Len(hits) |-> full_url(hits[i].href, start_url)]

\* get_record_links(page, start_url), once the start page has loaded: both
\* passes add to one set, returned as a sorted list (line 205)
get_record_links(anchors, start_url) ==
    SortedList(strategy1(anchors, start_url) \cup strategy2(anchors, start_url))

(***************************************************************************)
(* Start pages the model feeds the link discovery.                         *)
(***************************************************************************)
UrlSpec == <<"h","t","t","p","s",":","/","/","h","/","a","/","b","/","c",".","h","t","m","l">>

UrlRec == <<"h","t","t","p","s",":","/","/","h","/","s","/","r","e","c","o","r","d","/","a",".","h","t","m","l">>

StartUrls == {UrlSpec, UrlRec}

Hrefs == {
    <<"h","t","t","p","s",":","/","/","h","/","r","e","c","o","r","d","/","x",".","h","t","m","l">>,
    <<"/","r","e","c","o","r","d","/","x",".","h","t","m","l">>,
    <<"/","r","e","c","o","r","d","/","y",".","h","t","m","l">>,
    <<"s","/","r","e","c","o","r","d","/","x",".","h","t","m","l">>,
    <<"x",".","h","t","m","l">>,
    <<"/","r","e","c","o","r","d","/","x",".","h","t","m">>,
    <<"f","t","p",":","/","/","h","/","r","e","c","o","r","d","/","x",".","h","t","m","l">>,
    <<"h","t","t","p","d","/","r","e","c","o","r","d","/","x",".","h","t","m","l">> }

Container(tag, id, class) == [tag |-> tag, id |-> id, class |-> class]

Withins == {
    <<>>,
    <<Container("nav", None, None)>>,
    <<Container("div", Some(<<"T","o","p","N","a","v">>), None)>>,
    <<Container("div", None, Some(<<"c","o","n","t","e","n","t">>))>>,
    <<Container("ul", None, Some(<<"t","r","e","e">>))>> }

Anchors == [href : Hrefs, within : Withins]

StartPages == SeqsUpTo(Anchors, MaxAnchors)

(***************************************************************************)
(* State.                                                                  *)
(***************************************************************************)
VARIABLES
    pc,            \* where main() stands (or the call under study, below)
    start_url,     \* main's start_url
    browser,       \* "none", "open" after launch, "closed" after browser.close()
    record_links,  \* main's record_links, None before discovery returned
    idx,           \* the position in record_links of the next URL to process
    results,       \* main's results list
    navlog,        \* every page.goto made so far, in order, with what came of it
    debug_files,   \* the files written under debug/
    output_file,   \* the content of netsuite_records.json, None while unwritten
    stdout_json,   \* the JSON echoed to stdout, None while not echoed
    arg,           \* the input of a function studied on its own
    ret,           \* its result, None while it has not returned
    remote         \* the calls made to the Apify API so far, in order

vars == <<pc, start_url, browser, record_links, idx, results, navlog,
          debug_files, output_file, stdout_json, arg, ret, remote>>

mainvars == <<start_url, browser, record_links, idx, results, navlog,
              debug_files, output_file, stdout_json, remote>>

\* src/netsuite_scraper.py:45 (record_index < 3)
DebugRecords == 3

\* os.path.basename(url)
basename(url) == LET parts == SplitSlash(url) IN parts[Len(parts)]

\* one page.goto: the URL, which call made it, whether it loaded, and for a
\* record page the elements fetched and what extract_record_data returned
Visit(kind, url, fetched, data) ==
    [kind |-> kind, url |-> url, ok |-> fetched # None, page |-> fetched, data |-> data]

(***************************************************************************)
(* Record pages a run of main meets: one for each way extraction ends.     *)
(***************************************************************************)
H1Widget == Heading("h1", <<<<" ","W","i","d","g","e","t","\n">>>>)

FixtureTable == Table(<<HeaderRow, Row("a", 6, ReqTrue, 0), Row("b", 4, ReqYes, 0)>>)

\* an h1, an h3 "Standard Fields", a table of header + 6-cell row + 4-cell row
PageFixture == <<H1Widget, Heading("h3", <<<<"S","t","a","n","d","a","r","d"," ","F","i","e","l","d","s">>>>), FixtureTable>>

PageNoH1 == <<Heading("h2", <<<<"F","i","e","l","d","s">>>>), FixtureTable>>

PageNoFields == <<H1Widget, Heading("h2", <<<<"T","a","b","s">>>>), FixtureTable>>

PageNoTable == <<H1Widget, Heading("h2", <<<<"F","i","e","l","d","s">>>>)>>

PageEmptyTable == <<H1Widget, Heading("h2", <<<<"F","i","e","l","d","s">>>>), Table(<<>>)>>

\* "Fields" only at a level that is not tried
PageFieldsH6 == <<H1Widget, Heading("h6", <<<<"F","i","e","l","d","s">>>>), FixtureTable>>

RunPages == {PageFixture, PageNoH1, PageNoFields, PageFieldsH6, PageNoTable, PageEmptyTable}

\* start pages a run of main meets: every href, outside and inside a <nav>
RunStartPages ==
    SeqsUpTo([href : Hrefs, within : {<<>>, <<Container("nav", None, None)>>}], MaxAnchors)

\* what a page.goto gives: None when it raises (timeout, network error)
Fetches(pages) == {None} \cup {Some(p) : p \in pages}

(***************************************************************************)
(* main()                                                                  *)
(***************************************************************************)
Init ==
    /\ pc = "start"
    /\ start_url \in StartUrls
    /\ browser = "none"
    /\ record_links = None
    /\ idx = 0
    /\ results = <<>>
    /\ navlog = <<>>
    /\ debug_files = {}
    /\ output_file = None
    /\ stdout_json = None
    /\ arg = None
    /\ ret = None
    /\ remote = <<>>

\* lines 227-231: the browser, context and page are created
Launch ==
    /\ pc = "start"
    /\ browser' = "open"
    /\ pc' = "discover"
    /\ UNCHANGED <<start_url, record_links, idx, results, navlog, debug_files,
                   output_file, stdout_json, arg, ret, remote>>

\* Discover without the "if not record_links" return of lines 239-243
Discover_NoAbort ==
    /\ pc = "discover"
    /\ \E anchors \in RunStartPages :
         /\ record_links' = Some(get_record_links(anchors, start_url))
         /\ navlog' = Append(navlog, Visit("start", start_url, Some(<<>>), None))
         /\ debug_files' = debug_files \cup {<<"page_source.html">>, <<"found_links.txt">>}
    /\ pc' = "loop"
    /\ idx' = 1
    /\ results' = <<>>
    /\ UNCHANGED <<start_url, browser, output_file, stdout_json, arg, ret, remote>>

\* lines 237-251 with get_record_links, the start page loading: the links are
\* found and saved; with none found the browser is closed and main returns
Discover ==
    /\ pc = "discover"
    /\ \E anchors \in RunStartPages :
         LET links == get_record_links(anchors, start_url)
         IN  /\ record_links' = Some(links)
             /\ navlog' = Append(navlog, Visit("start", start_url, Some(<<>>), None))
             /\ debug_files' = debug_files \cup {<<"page_source.html">>, <<"found_links.txt">>}
             /\ IF links = <<>>
                THEN /\ browser' = "closed"
                     /\ pc' = "aborted"
                     /\ UNCHANGED <<idx, results>>
                ELSE /\ pc' = "loop"
                     /\ idx' = 1
                     /\ results' = <<>>
                     /\ UNCHANGED browser
    /\ UNCHANGED <<start_url, output_file, stdout_json, arg, ret, remote>>

\* lines 125, 237: page.goto(start_url) raises inside get_record_links, where
\* nothing catches it; the exception leaves main
DiscoverRaises ==
    /\ pc = "discover"
    /\ navlog' = Append(navlog, Visit("start", start_url, None, None))
    /\ pc' = "crashed"
    /\ UNCHANGED <<start_url, browser, record_links, idx, results, debug_files,
                   output_file, stdout_json, arg, ret, remote>>

\* the debug snapshot of lines 45-50, for the first DebugRecords pages that load
DebugSnapshot(i, url, fetched) ==
    IF fetched # None /\ i - 1 < DebugRecords
    THEN {<<"record", i - 1, basename(url)>>}
    ELSE {}

\* ProcessRecord appending an empty entry for a URL whose extraction gave nothing
ProcessRecord_Placeholder ==
    /\ pc = "loop"
    /\ idx <= Len(record_links[1])
    /\ \E fetched \in Fetches(RunPages) :
         LET url         == record_links[1][idx]
             record_data == extract_record_data(fetched, url)
         IN  /\ results' = Append(results, IF record_data # None
                                            THEN record_data[1]
                                            ELSE [recordName       |-> <<>>,
                                                  recordInternalId |-> record_internal_id(url),
                                                  fields           |-> <<>>])
             /\ navlog' = Append(navlog, Visit("record", url, fetched, record_data))
             /\ debug_files' = debug_files \cup DebugSnapshot(idx, url, fetched)
    /\ idx' = idx + 1
    /\ UNCHANGED <<pc, start_url, browser, record_links, output_file, stdout_json, arg, ret, remote>>

\* ProcessRecord staying on a URL whose extraction gave nothing
ProcessRecord_Retry ==
    /\ pc = "loop"
    /\ idx <= Len(record_links[1])
    /\ \E fetched \in Fetches(RunPages) :
         LET url         == record_links[1][idx]
             record_data == extract_record_data(fetched, url)
         IN  /\ results' = IF record_data # None
                           THEN Append(results, record_data[1])
                           ELSE results
             /\ navlog' = Append(navlog, Visit("record", url, fetched, record_data))
             /\ debug_files' = debug_files \cup DebugSnapshot(idx, url, fetched)
             /\ idx' = IF record_data # None THEN idx + 1 ELSE idx
    /\ UNCHANGED <<pc, start_url, browser, record_links, output_file, stdout_json, arg, ret, remote>>

\* ProcessRecord queueing a further URL found on the record page it loaded
ProcessRecord_Follow ==
    /\ pc = "loop"
    /\ idx <= Len(record_links[1])
    /\ \E fetched \in Fetches(RunPages) :
         LET url         == record_links[1][idx]
             record_data == extract_record_data(fetched, url)
         IN  /\ results' = IF record_data # None
                           THEN Append(results, record_data[1])
                           ELSE results
             /\ navlog' = Append(navlog, Visit("record", url, fetched, record_data))
             /\ debug_files' = debug_files \cup DebugSnapshot(idx, url, fetched)
             /\ record_links' = IF fetched # None /\ idx = Len(record_links[1])
                                THEN Some(Append(record_links[1], start_url))
                                ELSE record_links
    /\ idx' = idx + 1
    /\ UNCHANGED <<pc, start_url, browser, output_file, stdout_json, arg, ret, remote>>

\* lines 253-260: one pass of the loop, extract_record_data included
ProcessRecord ==
    /\ pc = "loop"
    /\ idx <= Len(record_links[1])
    /\ \E fetched \in Fetches(RunPages) :
         LET url         == record_links[1][idx]
             record_data == extract_record_data(fetched, url)
         IN  /\ results' = IF record_data # None
                           THEN Append(results, record_data[1])
                           ELSE results
             /\ navlog' = Append(navlog, Visit("record", url, fetched, record_data))
             /\ debug_files' = debug_files \cup DebugSnapshot(idx, url, fetched)
    /\ idx' = idx + 1
    /\ UNCHANGED <<pc, start_url, browser, record_links, output_file, stdout_json, arg, ret, remote>>

\* lines 262-284: after the last URL the browser is closed, the results are
\* written to netsuite_records.json and echoed to stdout
SaveResults ==
    /\ pc = "loop"
    /\ idx > Len(record_links[1])
    /\ browser' = "closed"
    /\ output_file' = Some(results)
    /\ stdout_json' = Some(results)
    /\ pc' = "done"
    /\ UNCHANGED <<start_url, record_links, idx, results, navlog, debug_files, arg, ret, remote>>

Next == Launch \/ Discover \/ DiscoverRaises \/ ProcessRecord \/ SaveResults

Spec == Init /\ [][Next]_vars

(***************************************************************************)
(* The three functions on their own: the input is drawn by the initial     *)
(* state, one step applies the function.                                   *)
(***************************************************************************)
Idle ==
    /\ start_url = UrlSpec
    /\ browser = "none"
    /\ record_links = None
    /\ idx = 0
    /\ results = <<>>
    /\ navlog = <<>>
    /\ debug_files = {}
    /\ output_file = None
    /\ stdout_json = None
    /\ remote = <<>>

\* parse_field_row(row)
InitRow ==
    /\ pc = "call"
    /\ arg \in Rows
    /\ ret = None
    /\ Idle

CallParseFieldRow ==
    /\ pc = "call"
    /\ ret' = Some(parse_field_row(arg))
    /\ pc' = "return"
    /\ UNCHANGED <<arg, mainvars>>

NextRow == CallParseFieldRow

SpecRow == InitRow /\ [][NextRow]_vars

\* extract_record_data(page, url)
RecordUrls == {
    <<"h","t","t","p","s",":","/","/","h","/","r","e","c","o","r","d","/","x",".","h","t","m","l">>,
    <<"h","t","t","p","s",":","/","/","h","/","s","/","r","e","c","o","r","d","/","y",".","h","t","m","l">>,
    \* the page a record href /record/a.html.html leads to
    <<"h","t","t","p","s",":","/","/","h","/","r","e","c","o","r","d","/","a",".","h","t","m","l",".","h","t","m","l">> }

InitExtract ==
    /\ pc = "call"
    /\ arg \in [fetched : Fetches(Pages), url : RecordUrls]
    /\ ret = None
    /\ Idle

CallExtractRecordData ==
    /\ pc = "call"
    /\ ret' = Some(extract_record_data(arg.fetched, arg.url))
    /\ pc' = "return"
    /\ UNCHANGED <<arg, mainvars>>

NextExtract == CallExtractRecordData

SpecExtract == InitExtract /\ [][NextExtract]_vars

\* get_record_links(page, start_url), the start page loading
InitLinks ==
    /\ pc = "call"
    /\ arg \in [anchors : StartPages, start_url : StartUrls]
    /\ ret = None
    /\ Idle

CallGetRecordLinks ==
    /\ pc = "call"
    /\ ret' = Some(get_record_links(arg.anchors, arg.start_url))
    /\ pc' = "return"
    /\ UNCHANGED <<arg, mainvars>>

NextLinks == CallGetRecordLinks

SpecLinks == InitLinks /\ [][NextLinks]_vars

(***************************************************************************)
(* Properties of a run of main (specification Spec).                       *)
(***************************************************************************)
RecordVisits == SelectSeq(navlog, LAMBDA v : v.kind = "record")

StartVisits == SelectSeq(navlog, LAMBDA v : v.kind = "start")

\* C1: every navigation failure of a run is caught and only skips its page:
\* once some page.goto has raised, the run has not halted on it (it is in the
\* loop over the URLs, or has written the output), and at the end the output
\* file is written.
C1_NavFailureSkipsPage ==
    \A k \in 1..Len(navlog) :
        ~navlog[k].ok =>
            /\ pc \in {"loop", "done"}
            /\ (pc = "done" => output_file # None)

\* C2: when link discovery returns no link the run ends there: the browser is
\* closed and main has returned, with no record page visited, nothing written
\* to the output file, nothing echoed, and the start page loaded once only.
C2_ZeroLinksTerminal ==
    record_links = Some(<<>>) =>
        /\ pc = "aborted"
        /\ browser = "closed"
        /\ Len(RecordVisits) = 0
        /\ Len(StartVisits) = 1
        /\ results = <<>>
        /\ output_file = None
        /\ stdout_json = None

C2_Witness == pc = "aborted" /\ record_links = Some(<<>>) /\ browser = "closed"

\* C3: the results hold exactly the entries of the URLs whose extraction
\* succeeded, in the order the URLs were processed (the order of record_links,
\* each URL once), with nothing standing for a failed URL; so their number
\* never exceeds the number of discovered links, and at the end of the run
\* this is the CrawlResult written out.
C3_ResultsAreSuccessesInOrder ==
    record_links # None =>
        /\ Len(RecordVisits) <= Len(record_links[1])
        /\ \A k \in 1..Len(RecordVisits) : RecordVisits[k].url = record_links[1][k]
        /\ results = Concat([k \in 1..Len(RecordVisits) |-> RecordVisits[k].data])
        /\ Len(results) <= Len(record_links[1])
        /\ (pc = "done" =>
              /\ Len(RecordVisits) = Len(record_links[1])
              /\ output_file = Some(results))

C3_Witness ==
    /\ pc = "done"
    /\ Len(record_links[1]) = 2
    /\ RecordVisits[1].data = None
    /\ RecordVisits[2].data # None
    /\ Len(results) = 1

\* the text of a heading holds "Fields"
HeadingSaysFields(el) == Contains(Concat(el.nodes), S_Fields)

\* an h1, and no h2..h5 whose text holds "Fields"
H1ButNoFieldsHeading(page) ==
    /\ \E i \in 1..Len(page) : page[i].tag = "h1"
    /\ \A i \in 1..Len(page) :
          page[i].tag \in {"h2", "h3", "h4", "h5"} => ~HeadingSaysFields(page[i])

\* C4: a record page with an h1 and no "Fields" heading at any level tried
\* gives no RecordEntry, and the run goes on: after such a visit the loop has
\* moved past that URL and the run has not halted.
C4_NoFieldsHeadingSkipsPage ==
    \A k \in 1..Len(RecordVisits) :
        (RecordVisits[k].ok /\ H1ButNoFieldsHeading(RecordVisits[k].page[1])) =>
            /\ RecordVisits[k].data = None
            /\ pc \in {"loop", "done"}
            /\ idx > k
            /\ Len(results) < Len(RecordVisits)

C4_Witness ==
    /\ Len(RecordVisits) = 2
    /\ RecordVisits[1].ok
    /\ H1ButNoFieldsHeading(RecordVisits[1].page[1])
    /\ RecordVisits[2].data # None

\* C5: nothing is retried: no URL is the target of two extraction attempts,
\* whether the first attempt failed or not.
C5_NoRetry ==
    \A j, k \in 1..Len(RecordVisits) :
        j < k => RecordVisits[j].url # RecordVisits[k].url

C5_Witness ==
    /\ Len(RecordVisits) = 2
    /\ ~RecordVisits[1].ok
    /\ RecordVisits[2].ok
    /\ RecordVisits[2].data = None

\* C6: one hop only: the start page is loaded once, first, and is the only
\* page scanned for links; every other page loaded is a link found on it, at
\* the end the pages loaded are the start URL and those links, and once
\* discovery has returned the work list never changes.
C6_VisitsWithinOneHop ==
    /\ Len(StartVisits) <= 1
    /\ \A k \in 1..Len(navlog) : navlog[k].kind = "start" <=> k = 1
    /\ \A k \in 1..Len(navlog) : navlog[k].kind = "start" => navlog[k].url = start_url
    /\ (record_links # None => Len(StartVisits) = 1)
    /\ \A k \in 1..Len(RecordVisits) :
          /\ record_links # None
          /\ \E n \in 1..Len(record_links[1]) : RecordVisits[k].url = record_links[1][n]
    /\ (pc = "done" =>
          {navlog[k].url : k \in 1..Len(navlog)}
              = {start_url} \cup {record_links[1][n] : n \in 1..Len(record_links[1])})

C6_OneHop ==
    /\ []C6_VisitsWithinOneHop
    /\ [][record_links # None => record_links' = record_links]_vars

C6_Witness ==
    /\ pc = "done"
    /\ Len(record_links[1]) = 2
    /\ Len(navlog) = 3
    /\ RecordVisits[1].data # None

(***************************************************************************)
(* Properties of extract_record_data (specification SpecExtract).          *)
(***************************************************************************)
TdCells(row) == SelectSeq(row, LAMBDA c : c.tag = "td")

\* the page was fetched and has an h1, a Fields heading and a table after it
HasFieldsTable(fetched) ==
    /\ fetched # None
    /\ find_h1(fetched[1]) # None
    /\ find_fields_heading(fetched[1]) # None
    /\ find_next_table(fetched[1], find_fields_heading(fetched[1])[1]) # None

\* the rows of that table
FieldsTableRows(fetched) ==
    fetched[1][find_next_table(fetched[1], find_fields_heading(fetched[1])[1])[1]].rows

\* the number of rows after the first that have fewer than 6 (td) cells
ShortRows(rows) == Cardinality({i \in 2..Len(rows) : Len(TdCells(rows[i])) < 6})

\* the rows after the first that have at least 6 (td) cells, in row order
LongRows(rows) == SelectSeq(SubSeq(rows, 2, Len(rows)), LAMBDA r : Len(TdCells(r)) >= 6)

\* C7 as claimed: for a page with an h1, a Fields heading and a following
\* table an entry is emitted whose number of descriptors is the number of
\* table rows, minus one, minus the number of short rows after the first, the
\* descriptors in row order.
C7_FieldCountAsClaimed ==
    (ret # None /\ HasFieldsTable(arg.fetched)) =>
        LET rows == FieldsTableRows(arg.fetched)
        IN  /\ ret[1] # None
            /\ Len(ret[1][1].fields) = Len(rows) - 1 - ShortRows(rows)
            /\ \A k \in 1..Len(ret[1][1].fields) :
                  ret[1][1].fields[k].internalId = GetTextStrip(TdCells(LongRows(rows)[k])[1].nodes)

\* C7 amended: the number of descriptors is the number of rows after the first
\* (none for a table without any row), minus the short rows among them; a
\* short row never makes the extraction fail, and the descriptors are those of
\* the remaining rows in row order.
C7_FieldCount ==
    (ret # None /\ HasFieldsTable(arg.fetched)) =>
        LET rows  == FieldsTableRows(arg.fetched)
            after == IF Len(rows) = 0 THEN 0 ELSE Len(rows) - 1
        IN  /\ ret[1] # None
            /\ Len(ret[1][1].fields) = after - ShortRows(rows)
            /\ \A k \in 1..Len(ret[1][1].fields) :
                  ret[1][1].fields[k].internalId = GetTextStrip(TdCells(LongRows(rows)[k])[1].nodes)

C7_Witness ==
    /\ ret # None
    /\ HasFieldsTable(arg.fetched)
    /\ Len(FieldsTableRows(arg.fetched)) = 4
    /\ ShortRows(FieldsTableRows(arg.fetched)) = 2
    /\ ret[1] # None
    /\ Len(ret[1][1].fields) = 1

\* the last path segment of a URL (the model's URLs carry no query or fragment)
LastPathSegment(url) == SplitSlash(url)[Len(SplitSlash(url))]

\* a file name without its extension: cut at the last dot, if there is one
StripExtension(name) ==
    LET dots == {i \in 1..Len(name) : name[i] = "."}
    IN  IF dots = {} THEN name
        ELSE SubSeq(name, 1, (CHOOSE i \in dots : \A j \in dots : j <= i) - 1)

\* C11: the recordInternalId of an emitted entry is the last path segment of
\* the URL the page was fetched from, without its extension, whatever the
\* page holds.
C11_InternalIdFromUrl ==
    (ret # None /\ ret[1] # None) =>
        ret[1][1].recordInternalId = StripExtension(LastPathSegment(arg.url))


\* the rank of a heading level among those searched: h2 first, h5 last
LevelRank(tag) == CHOOSE k \in 1..4 : <<"h2", "h3", "h4", "h5">>[k] = tag

IsTrueAnyCase(s) ==
    /\ Len(s) = 4
    /\ s[1] \in {"t", "T"}
    /\ s[2] \in {"r", "R"}
    /\ s[3] \in {"u", "U"}
    /\ s[4] \in {"e", "E"}

\* the text nodes of the row's 5th (td) cell
FifthCell(row) == TdCells(row)[5].nodes

\* C8 as claimed: required is true iff the 5th cell, trimmed, is "true" in any
\* case; "TRUE " (with the trailing blank) and "yes" give false.
C8_RequiredAsClaimed ==
    (ret # None /\ ret[1] # None) =>
        /\ ret[1][1].required <=> IsTrueAnyCase(GetTextStrip(FifthCell(arg)))
        /\ FifthCell(arg) = <<<<"T","R","U","E"," ">>>> => ~ret[1][1].required
        /\ FifthCell(arg) = <<<<"y","e","s">>>> => ~ret[1][1].required

\* C8 amended: required is true iff the 5th cell, trimmed, is "true" in any
\* case; so "TRUE " gives true, and "yes" gives false.
C8_RequiredIffTrue ==
    (ret # None /\ ret[1] # None) =>
        /\ ret[1][1].required \in BOOLEAN
        /\ ret[1][1].required <=> IsTrueAnyCase(GetTextStrip(FifthCell(arg)))
        /\ FifthCell(arg) = <<<<"T","R","U","E"," ">>>> => ret[1][1].required
        /\ FifthCell(arg) = <<<<"y","e","s">>>> => ~ret[1][1].required

C8_Witness ==
    /\ ret # None
    /\ ret[1] # None
    /\ FifthCell(arg) = <<<<"T","R","U","E"," ">>>>
    /\ ret[1][1].required

(***************************************************************************)
(* Properties of get_record_links (specification SpecLinks).               *)
(***************************************************************************)
Letters == {UpperCase[i] : i \in 1..26} \cup {LowerCase[i] : i \in 1..26}

\* href starts with a scheme: letters, then "://"
IsSchemeAbsolute(href) ==
    \E i \in 2..(Len(href) - 2) :
        /\ SubSeq(href, i, i + 2) = <<":", "/", "/">>
        /\ \A j \in 1..(i - 1) : href[j] \in Letters

\* the resolution the three cases describe
ResolveAsClaimed(href, base) ==
    IF IsSchemeAbsolute(href) THEN href
    ELSE IF href # <<>> /\ href[1] = "/"
         THEN JoinSlash(Take(SplitSlash(base), 3)) \o href
         ELSE JoinSlash(SubSeq(SplitSlash(base), 1, Len(SplitSlash(base)) - 1)) \o <<"/">> \o href

ElemsOf(seq) == {seq[i] : i \in 1..Len(seq)}

\* C9 as claimed: each record href of the start page is resolved by the three
\* cases (scheme-absolute: unchanged; leading slash: scheme and host of the
\* start URL prefixed; otherwise: joined to the parent path of the start URL),
\* and with start URL https://h/a/b/c.html the hrefs /record/x.html and
\* x.html resolve to https://h/record/x.html and https://h/a/b/x.html.
C9_ResolveAsClaimed ==
    /\ full_url(<<"/","r","e","c","o","r","d","/","x",".","h","t","m","l">>, UrlSpec) = <<"h","t","t","p","s",":","/","/","h","/","r","e","c","o","r","d","/","x",".","h","t","m","l">>
    /\ full_url(<<"x",".","h","t","m","l">>, UrlSpec) = <<"h","t","t","p","s",":","/","/","h","/","a","/","b","/","x",".","h","t","m","l">>
    /\ ret # None =>
          \A i \in 1..Len(arg.anchors) :
              is_record_href(arg.anchors[i].href) =>
                  ResolveAsClaimed(arg.anchors[i].href, arg.start_url) \in ElemsOf(ret[1])

\* C10: the list get_record_links returns holds no URL twice, so anchors whose
\* hrefs resolve to one URL give one entry, and each URL in it is the
\* resolution of an anchor href that holds "/record/" and ends with ".html".
C10_LinksDeduplicated ==
    ret # None =>
        /\ \A j, k \in 1..Len(ret[1]) : j # k => ret[1][j] # ret[1][k]
        /\ \A k \in 1..Len(ret[1]) :
              \E i \in 1..Len(arg.anchors) :
                  /\ Contains(arg.anchors[i].href, S_record)
                  /\ EndsWith(arg.anchors[i].href, S_html)
                  /\ ret[1][k] = full_url(arg.anchors[i].href, arg.start_url)
        /\ \A i \in 1..Len(arg.anchors) :
              (Contains(arg.anchors[i].href, S_record) /\ EndsWith(arg.anchors[i].href, S_html)) =>
                  Cardinality({k \in 1..Len(ret[1]) :
                                 ret[1][k] = full_url(arg.anchors[i].href, arg.start_url)}) = 1

C10_Witness ==
    /\ ret # None
    /\ Len(arg.anchors) = 2
    /\ arg.anchors[1].href # arg.anchors[2].href
    /\ arg.anchors[1].within = <<>>
    /\ arg.anchors[2].within # <<>>
    /\ is_record_href(arg.anchors[1].href)
    /\ full_url(arg.anchors[1].href, arg.start_url) = full_url(arg.anchors[2].href, arg.start_url)
    /\ Len(ret[1]) = 1

(***************************************************************************)
(* The Apify wrappers: ApifyWebScraper of apify_scraper.py and             *)
(* run_apify_web_scraper of apify_web_scraper.py.  An environment maps a   *)
(* variable to None (unset) or to its value; a token argument is None when *)
(* not passed.                                                             *)
(***************************************************************************)
\* Python truth of an optional str: None and '' are false
Truthy(v) == v # None /\ v[1] # <<>>

\* apify_scraper.py line 38: api_token or os.getenv('APIFY_API_TOKEN')
resolve_api_token(api_token, env) ==
    IF Truthy(api_token) THEN api_token ELSE env.APIFY_API_TOKEN

\* ApifyWebScraper.__init__ taking whatever token it resolved
new_scraper_unchecked(api_token, env) == Some([token |-> resolve_api_token(api_token, env)])

\* ApifyWebScraper.__init__: None when it raises ValueError, else the object
\* with its client
new_scraper(api_token, env) ==
    IF ~Truthy(resolve_api_token(api_token, env)) THEN None
    ELSE Some([token |-> resolve_api_token(api_token, env)])

\* get_apify_client building the client from whatever APIFY_TOKEN holds
get_apify_client_unchecked(env) == Some([token |-> env.APIFY_TOKEN])

\* get_apify_client(): None when it raises RuntimeError, else the client
get_apify_client(env) ==
    IF ~Truthy(env.APIFY_TOKEN) THEN None
    ELSE Some([token |-> env.APIFY_TOKEN])

\* what the hosted actor answers: a run, with or without a default dataset,
\* and the items of that dataset
ActorRuns == [id : {"run"}, status : {"SUCCEEDED", "FAILED"}, defaultDatasetId : {None, Some("ds")}]

DatasetItems == {<<>>, <<"item">>, <<"item", "item">>}

\* ApifyWebScraper.scrape, lines 74-92: the run input
scrape_input(a) ==
    [startUrls           |-> a.start_urls,
     maxPagesPerCrawl    |-> 10,
     maxCrawlingDepth    |-> 0,
     pageFunction        |-> IF Truthy(a.page_function) THEN a.page_function ELSE None,
     proxyConfiguration  |-> [useApifyProxy |-> TRUE]]

\* run_apify_web_scraper, lines 38-50: the run input
web_scraper_input(a) ==
    [startUrls           |-> a.start_urls,
     maxRequestsPerCrawl |-> 25,
     crawlerType         |-> "playwright:chromium",
     runMode             |-> "PRODUCTION",
     pseudoUrls          |-> IF Truthy(a.pseudo_urls) THEN a.pseudo_urls ELSE None,
     proxyConfiguration  |-> [useApifyProxy |-> TRUE,
                              apifyProxyCountry |-> IF Truthy(a.proxy_country)
                                                    THEN a.proxy_country ELSE None]]

ActorCall(client, input) == [call |-> "actor.call", token |-> client.token, input |-> input]

DatasetRead(client, id) == [call |-> "dataset.read", token |-> client.token, input |-> id]

Tokens == {None, Some(<<>>), Some(<<"t","o","k">>)}

InitApify ==
    /\ pc = "call"
    /\ arg \in [entry         : {"ApifyWebScraper", "run_apify_web_scraper"},
                api_token     : Tokens,
                env           : [APIFY_API_TOKEN : Tokens, APIFY_TOKEN : Tokens],
                start_urls    : {<<UrlSpec>>},
                page_function : {None, Some(<<"f">>)},
                pseudo_urls   : {None, Some(<<"p">>)},
                proxy_country : {None, Some(<<"U","S">>)}]
    /\ (arg.entry = "run_apify_web_scraper" => arg.api_token = None /\ arg.page_function = None)
    /\ (arg.entry = "ApifyWebScraper" => arg.pseudo_urls = None /\ arg.proxy_country = None)
    /\ ret = None
    /\ start_url = UrlSpec
    /\ browser = "none"
    /\ record_links = None
    /\ idx = 0
    /\ results = <<>>
    /\ navlog = <<>>
    /\ debug_files = {}
    /\ output_file = None
    /\ stdout_json = None
    /\ remote = <<>>

apifyvars == <<start_url, browser, record_links, idx, results, navlog,
               debug_files, output_file, stdout_json>>

\* apify_scraper.py lines 28-47: ApifyWebScraper(api_token)
ApifyInit ==
    /\ pc = "call"
    /\ arg.entry = "ApifyWebScraper"
    /\ IF new_scraper(arg.api_token, arg.env) = None
       THEN /\ pc' = "raised"
            /\ ret' = Some("ValueError")
       ELSE /\ pc' = "ready"
            /\ ret' = new_scraper(arg.api_token, arg.env)
    /\ UNCHANGED <<arg, remote, apifyvars>>

\* apify_scraper.py lines 49-111: scraper.scrape(...) on a constructed scraper
ApifyScrape ==
    /\ pc = "ready"
    /\ arg.entry = "ApifyWebScraper"
    /\ \E run \in {r \in ActorRuns : r.defaultDatasetId # None} : \E items \in DatasetItems :
         /\ remote' = remote \o <<ActorCall(ret[1], scrape_input(arg)),
                                  DatasetRead(ret[1], run.defaultDatasetId[1])>>
         /\ ret' = Some(items)
    /\ pc' = "return"
    /\ UNCHANGED <<arg, apifyvars>>

\* apify_web_scraper.py lines 26-60: run_apify_web_scraper(...), with
\* get_apify_client
RunApifyWebScraper ==
    /\ pc = "call"
    /\ arg.entry = "run_apify_web_scraper"
    /\ LET client == get_apify_client(arg.env)
       IN  IF client = None
           THEN /\ pc' = "raised"
                /\ ret' = Some("RuntimeError")
                /\ UNCHANGED remote
           ELSE \E run \in ActorRuns : \E items \in DatasetItems :
                  /\ remote' = remote \o <<ActorCall(client[1], web_scraper_input(arg))>>
                                 \o (IF run.defaultDatasetId # None
                                     THEN <<DatasetRead(client[1], run.defaultDatasetId[1])>>
                                     ELSE <<>>)
                  /\ (run.defaultDatasetId = None => items = <<>>)
                  /\ ret' = Some([run |-> run, items |-> items])
                  /\ pc' = "return"
    /\ UNCHANGED <<arg, apifyvars>>

NextApify == ApifyInit \/ ApifyScrape \/ RunApifyWebScraper

SpecApify == InitApify /\ [][NextApify]_vars

\* no token was given: the argument (where there is one) and the environment
\* variable the wrapper reads are unset or empty
TokenAbsent(v) == v = None \/ v = Some(<<>>)

NoTokenGiven ==
    IF arg.entry = "ApifyWebScraper"
    THEN TokenAbsent(arg.api_token) /\ TokenAbsent(arg.env.APIFY_API_TOKEN)
    ELSE TokenAbsent(arg.env.APIFY_TOKEN)

\* C12: without an API token both wrappers fail at the start: the constructor
\* of ApifyWebScraper and run_apify_web_scraper raise, and no actor run is
\* started and no dataset read, then or later.
C12_NoTokenIsFatal ==
    NoTokenGiven =>
        /\ remote = <<>>
        /\ pc \in {"call", "raised"}
        /\ (pc = "raised" => ret \in {Some("ValueError"), Some("RuntimeError")})

C12_Witness ==
    /\ pc = "raised"
    /\ arg.entry = "run_apify_web_scraper"
    /\ arg.env.APIFY_TOKEN = None
    /\ remote = <<>>

(***************************************************************************)
(* The two passes of get_record_links (specification SpecLinks), and the   *)
(* order of the work list.                                                 *)
(***************************************************************************)
\* the URLs the whole-document pass finds
FirstPassUrls ==
    { full_url(arg.anchors[i].href, arg.start_url) :
        i \in {j \in 1..Len(arg.anchors) :
                 Contains(arg.anchors[j].href, S_record) /\ EndsWith(arg.anchors[j].href, S_html)} }

\* C14: the pass over the navigation containers adds no URL the pass over the
\* whole document did not find, so the links returned are those of the first
\* pass alone, with or without a navigation container on the page; the list
\* returned is in ascending lexicographic order.
C14_SecondPassAddsNothing ==
    ret # None =>
        /\ strategy2(arg.anchors, arg.start_url) \subseteq FirstPassUrls
        /\ ElemsOf(ret[1]) = FirstPassUrls
        /\ Len(ret[1]) = Cardinality(FirstPassUrls)
        /\ \A j, k \in 1..Len(ret[1]) : j < k => StrLess(ret[1][j], ret[1][k])

C14_Witness ==
    /\ ret # None
    /\ Len(arg.anchors) = 2
    /\ arg.anchors[1].within = <<Container("nav", None, None)>>
    /\ arg.anchors[2].within = <<>>
    /\ strategy2(arg.anchors, arg.start_url) # {}
    /\ Len(ret[1]) = 2
    /\ ret[1][1] = full_url(arg.anchors[2].href, arg.start_url)

\* in a run of main the record pages are visited in that ascending order
ProcessedInAscendingOrder ==
    \A j, k \in 1..Len(RecordVisits) :
        j < k => StrLess(RecordVisits[j].url, RecordVisits[k].url)

====
